---------------------------- MODULE Spec2Model ----------------------------
(***************************************************************************)
(* A model of the decoding engine of KEFU3/kefu_model3.py: the extended-   *)
(* vocabulary index resolver (embedding_fn_multi, embedding_fn), the cue   *)
(* selector of create_model and the inference decode loop of               *)
(* create_decoder.  Arrays are 0-based, as in the source.                  *)
(***************************************************************************)
EXTENDS Integers, Sequences, FiniteSets, TLC

VARIABLES
    hparams,     \* the hparams dictionary and the construction arguments
    inputs,      \* the batch: shapes, lengths, ids, scores, feeds
    pc,          \* position of the program
    resolved,    \* the tensors of the last index-resolver call, at one element
    classifier,  \* prior / posterior selection distributions of create_model
    cue,         \* the realized cue selection of create_model
    decoder,     \* the decoder built by create_decoder and its decode loop
    model        \* further attributes of the Model object and values it computes

vars == <<hparams, inputs, pc, resolved, classifier, cue, decoder, model>>

-----------------------------------------------------------------------------
(* Bounds of the model.                                                    *)

VocabSize == 3        \* hparams['tgt_vocab_size'] of the modelled runs
MaxCopy == 2          \* largest hparams['copy_token_nums']
MaxEntity == 2        \* largest hparams['entity_token_nums']
MaxSrcLen == 3        \* largest padded source width S
MaxFact == 4          \* largest padded candidate-pool width F
BatchSize == 2        \* examples per batch
BeamWidth == 2        \* largest hparams['beam_width']
MaxScore == 2         \* candidate scores range over 0..MaxScore
UnderflowGap == 1     \* largest score gap whose float32 exp is still non-zero
CueFact == 3          \* candidate-pool width of the cue-selection runs
MaxDecodeLen == 2     \* largest source length of the decoded batches
MaxLine == 2          \* largest token count of a line of the dataset

Min(a, b) == IF a < b THEN a ELSE b
Max(a, b) == IF a > b THEN a ELSE b

NoValue == [none |-> TRUE]

-----------------------------------------------------------------------------
(* hparams and the batch.                                                  *)

DefaultHparams ==
    [ tgt_vocab_size      |-> VocabSize,
      src_vocab_size      |-> VocabSize,
      copy_token_nums     |-> 1,
      entity_token_nums   |-> 1,
      entity_predict_mode |-> TRUE,
      copy_predict_mode   |-> TRUE,
      multi_decoder_input |-> TRUE,
      kefu_decoder        |-> TRUE,
      beam_width          |-> 1,
      infer_mode          |-> "beam_search",
      mode                |-> "INFER",
      flexka_classifier_mode            |-> "prior_posterior_attention",
      flexka_classifier_connection_mode |-> "argmax",
      force_argmax        |-> FALSE,
      attention           |-> "luong",
      optimizer           |-> "adam",
      unk_helper          |-> TRUE,
      add_token_type_feature |-> FALSE ]

\* The id of the end token in the source vocabulary; the batch is padded with it.
src_eos_id == 2

\* source[b][k]: the padded source ids of the batch (inputs['inputs_for_encoder']).
source(S, lens, b, k) ==
    IF k < lens[b] THEN (b * S + k) % VocabSize ELSE src_eos_id

\* inputs['inputs_for_facts'][b][j]: the fact id at candidate position j of example b.
fact_candidate(F, b, j) == b * F + j

\* inputs['fact_entity_in_response'] and inputs['entity2word']: fixed lookup tables.
fact_entity_in_response(f) == f + 1
entity2word(e) == e % VocabSize


-----------------------------------------------------------------------------
(* tf.contrib.seq2seq.tile_batch and the flattened lookups.                *)

\* Rows of the candidate pool the resolver closes over: tiled by beam_width in
\* beam search with kefu_decoder, the plain batch otherwise.
fact_entity_idx_rows(hp, B) ==
    IF hp.mode = "INFER" /\ hp.infer_mode = "beam_search" /\ hp.kefu_decoder
    THEN B * hp.beam_width ELSE B

\* A tiling in which every tiled row reads the first example.
tile_batch_example_first(row, multiplier) == 0

\* The example a row of a tile_batch'ed tensor belongs to.
tile_batch_example(row, multiplier) == row \div multiplier

\* tf.reshape(fact_entity_idx, [-1])[i]
flatten_fact_idx(hp, B, F, i) ==
    LET rows == fact_entity_idx_rows(hp, B)
        W    == rows \div B
    IN  fact_candidate(F, tile_batch_example(i \div F, W), i % F)

\* tf.reshape(src_idx, [-1])[i]; src_idx is the untiled inputs_for_encoder.
flatten_src_idx(S, lens, i) == source(S, lens, i \div S, i % S)

-----------------------------------------------------------------------------
(* embedding_fn_multi, at element (b, w) of input_idx [batch, beam].       *)

relative_entity_idx(hp, x) == x - hp.src_vocab_size - hp.copy_token_nums

is_entity_multi(hp, x) == relative_entity_idx(hp, x) >= 0

\* tf.maximum(0, relative_entity_idx): the only clipping the entity offset gets.
clipped_entity_idx(hp, x) == Max(0, relative_entity_idx(hp, x))

\* relative_entity_idx + tf.range(batch_size) * max_fact_num
offset_entity_idx(hp, F, b, x) == clipped_entity_idx(hp, x) + b * F

is_copy_words(hp, S, x) ==
    x >= hp.tgt_vocab_size /\ x < hp.tgt_vocab_size + S

copy_idx(hp, S, x) == Min(Max(x - hp.tgt_vocab_size, 0), S - 1)

\* A row offset built from the number of copy slots instead of the source width.
offset_copy_idx_by_slots(hp, S, b, x) ==
    copy_idx(hp, S, x) + b * hp.copy_token_nums

\* copy_idx + tf.range(batch_size) * max_src_len
offset_copy_idx(hp, S, b, x) == copy_idx(hp, S, x) + b * S

\* The word a looked-up fact resolves to: fact -> entity in response -> word.
entity2word_idx(hp, B, F, i) ==
    entity2word(fact_entity_in_response(flatten_fact_idx(hp, B, F, i)))

\* embedding_list.reverse()
reverse(list) == [i \in 1..Len(list) |-> list[Len(list) + 1 - i]]

\* The sub-embeddings concatenated for the teacher-forced decoder input,
\* lines 612-663.
targets_in_embedding_list(hp) ==
    IF hp.mode = "TRAIN" /\ hp.multi_decoder_input
    THEN LET common == <<"common_word_embedding">>
             copy   == IF hp.copy_predict_mode
                       THEN Append(common, "copy_embedding") ELSE common
         IN  IF hp.entity_predict_mode
             THEN Append(copy, "entity_embedding") ELSE copy
    ELSE <<"common_word_embedding">>

\* The sub-embeddings embedding_fn_multi concatenates: appended in the order
\* of the code, then reversed.
embedding_list_multi(hp) ==
    LET ent == hp.entity_predict_mode
        cp  == hp.copy_predict_mode
        entity_only == IF ent /\ ~cp THEN <<"entity_embedding">> ELSE <<>>
        with_copy   == IF cp
                       THEN Append(IF ent THEN Append(entity_only, "entity_embedding")
                                   ELSE entity_only,
                                   "copy_embedding")
                       ELSE entity_only
        with_common == Append(with_copy, "common_word_embedding")
        with_type   == IF hp.add_token_type_feature
                       THEN Append(with_common, "token_type_embedding")
                       ELSE with_common
    IN  reverse(with_type)

\* One call of embedding_fn_multi.  A gather whose index is outside the array
\* raises on a CPU kernel (raises = TRUE) and yields 0 on a GPU kernel.
embedding_fn_multi(hp, inp, b, w, x, raises) ==
    LET B == inp.batch_size
        S == inp.max_src_len
        F == inp.max_fact_num
        ent == hp.entity_predict_mode
        cp  == hp.copy_predict_mode
        fact_flat == offset_entity_idx(hp, F, b, x)
        fact_size == fact_entity_idx_rows(hp, B) * F
        fact_oob  == ent /\ fact_flat >= fact_size
        is_ent    == ent /\ is_entity_multi(hp, x)
        word_e    == IF fact_oob THEN entity2word(fact_entity_in_response(0))
                     ELSE entity2word_idx(hp, B, F, fact_flat)
        idx1      == IF is_ent THEN word_e ELSE x
        copy_flat == offset_copy_idx(hp, S, b, x)
        is_cp     == cp /\ is_copy_words(hp, S, x)
        idx2      == IF is_cp THEN flatten_src_idx(S, inp.lengths_for_encoder, copy_flat)
                     ELSE idx1
    IN  [ fn |-> "embedding_fn_multi", b |-> b, w |-> w, x |-> x,
          status |-> IF fact_oob /\ raises THEN "InvalidArgumentError" ELSE "ok",
          is_entity |-> is_ent,
          is_copy |-> is_cp,
          fact_lookup |-> ent,
          fact_flat |-> fact_flat,
          fact_size |-> fact_size,
          fact_rows_per_example |-> fact_entity_idx_rows(hp, B) \div B,
          copy_lookup |-> cp,
          copy_flat |-> copy_flat,
          common_word_idx |-> idx2,
          embedding_list |-> embedding_list_multi(hp) ]

-----------------------------------------------------------------------------
(* embedding_fn, at element (b, w) of x [batch, beam].                     *)

is_entity_fn(hp, x) == relative_entity_idx(hp, x) > 0

\* relative_entity_idx [B, W] + offset [rows, 1] broadcasts iff the leading
\* dimensions agree or one of them is 1; the sum is then reshaped to [B, W].
offset_shape_ok(B, W, rows) ==
    /\ (B = rows \/ B = 1 \/ rows = 1)
    /\ Max(B, rows) * W = B * W

embedding_fn(hp, inp, b, w, x, raises) ==
    LET B == inp.batch_size
        F == inp.max_fact_num
        ent == hp.entity_predict_mode
        rows == fact_entity_idx_rows(hp, B)
        shape_ok  == ~ent \/ offset_shape_ok(B, hp.beam_width, rows)
        fact_flat == offset_entity_idx(hp, F, b, x)
        fact_size == rows * F
        fact_oob  == ent /\ fact_flat >= fact_size
        is_ent    == ent /\ is_entity_fn(hp, x)
        word_e    == IF fact_oob THEN entity2word(fact_entity_in_response(0))
                     ELSE entity2word_idx(hp, B, F, fact_flat)
    IN  [ fn |-> "embedding_fn", b |-> b, w |-> w, x |-> x,
          status |-> IF ~shape_ok \/ (fact_oob /\ raises)
                     THEN "InvalidArgumentError" ELSE "ok",
          is_entity |-> is_ent,
          is_copy |-> FALSE,
          fact_lookup |-> ent /\ shape_ok,
          fact_flat |-> fact_flat,
          fact_size |-> fact_size,
          fact_rows_per_example |-> rows \div B,
          copy_lookup |-> FALSE,
          copy_flat |-> 0,
          common_word_idx |-> IF is_ent THEN word_e ELSE x ]

-----------------------------------------------------------------------------
(* The index resolver under beam search: the decoder hands every id of the *)
(* extended vocabulary to the embedding function it was built with.        *)

ExtendedVocab(hp) ==
    0 .. (hp.tgt_vocab_size + hp.copy_token_nums + hp.entity_token_nums - 1)

Examples == 0 .. (BatchSize - 1)

InitResolver ==
    /\ \E C \in 1..MaxCopy, E \in 1..MaxEntity, W \in {1, BeamWidth},
          ent \in BOOLEAN, cp \in BOOLEAN, multi \in BOOLEAN, type \in BOOLEAN :
          hparams = [DefaultHparams EXCEPT
                        !.copy_token_nums = C, !.entity_token_nums = E,
                        !.beam_width = W, !.entity_predict_mode = ent,
                        !.copy_predict_mode = cp, !.multi_decoder_input = multi,
                        !.add_token_type_feature = type]
    /\ \E S \in 1..MaxSrcLen, F \in 1..MaxFact :
         \E len_other \in 1..S :
          inputs = [ batch_size |-> BatchSize,
                     max_src_len |-> S,
                     max_fact_num |-> F,
                     lengths_for_encoder |->
                         [b \in Examples |-> IF b = 0 THEN S ELSE len_other] ]
    /\ pc = "resolve"
    /\ resolved = NoValue
    /\ classifier = NoValue
    /\ cue = NoValue
    /\ decoder = NoValue
    /\ model = NoValue

\* my_embedding_fn = embedding_fn_multi, when multi_decoder_input is set
CallEmbeddingFnMulti ==
    /\ pc = "resolve"
    /\ hparams.multi_decoder_input
    /\ \E b \in Examples, w \in 0..(hparams.beam_width - 1),
          x \in ExtendedVocab(hparams), raises \in BOOLEAN :
          resolved' = embedding_fn_multi(hparams, inputs, b, w, x, raises)
    /\ pc' = "resolved"
    /\ UNCHANGED <<hparams, inputs, classifier, cue, decoder, model>>

\* my_embedding_fn = embedding_fn, otherwise
CallEmbeddingFn ==
    /\ pc = "resolve"
    /\ ~hparams.multi_decoder_input
    /\ \E b \in Examples, w \in 0..(hparams.beam_width - 1),
          x \in ExtendedVocab(hparams), raises \in BOOLEAN :
          resolved' = embedding_fn(hparams, inputs, b, w, x, raises)
    /\ pc' = "resolved"
    /\ UNCHANGED <<hparams, inputs, classifier, cue, decoder, model>>

\* The embedding is consumed by the cell; the next step resolves the next id.
\* A raised error ends the run.
ConsumeEmbedding ==
    /\ pc = "resolved"
    /\ resolved.status = "ok"
    /\ pc' = "resolve"
    /\ resolved' = NoValue
    /\ UNCHANGED <<hparams, inputs, classifier, cue, decoder, model>>

NextResolver == CallEmbeddingFnMulti \/ CallEmbeddingFn \/ ConsumeEmbedding

SpecResolver == InitResolver /\ [][NextResolver]_vars

-----------------------------------------------------------------------------
(* The cue selector of create_model, for one example of the batch.         *)
(* A logit is a pair: bias counts the -1e10 addends of fact_mask, score is *)
(* the classifier score.  |score| < 300 (a sum of 300 products of tanh     *)
(* outputs) is below half a float32 ulp of 1e10, so a masked logit is      *)
(* exactly bias * -1e10 and its score is lost.  A distribution is kept as  *)
(* its vector of unnormalized softmax weights: the probability of j is     *)
(* w[j] / sum of w, and it is zero iff w[j] = 0.                           *)

Pow2(n) == IF n <= 0 THEN 1 ELSE 2 ^ n

\* tf.sequence_mask(lengths)[j]
fact_seq_mask(len, j) == IF j < len THEN 1 ELSE 0

\* tf.sequence_mask(tf.ones_like(lengths), maxlen)[j]
unk_mask(j) == IF j < 1 THEN 1 ELSE 0

\* A mask that leaves the first candidate alone.
fact_mask_padding_only(len, j) == 1 - fact_seq_mask(len, j)

\* A mask that forgets the padding.
fact_mask_unk_only(len, j) == unk_mask(j)

\* fact_mask = (1.0 - fact_seq_mask) * -1e10 + unk_mask * -1e10, in units of -1e10
fact_mask(len, j) == (1 - fact_seq_mask(len, j)) + unk_mask(j)

\* classifier_scores += fact_mask, in float32
add_fact_mask(scores, len) ==
    [j \in DOMAIN scores |->
        [bias |-> fact_mask(len, j),
         score |-> IF fact_mask(len, j) = 0 THEN scores[j] ELSE 0]]

\* float32 exp(-d), d >= 0 in score units: 0 once d is past the underflow gap.
exp_f32(d) == IF d > UnderflowGap THEN 0 ELSE Pow2(UnderflowGap - d)

SetMin(T) == CHOOSE m \in T : \A n \in T : m <= n
SetMax(T) == CHOOSE m \in T : \A n \in T : m >= n

\* tf.nn.softmax over the candidate axis: exp(logit - max logit), unnormalized.
\* exp(-1e10) is 0 in float32.
softmax(logits) ==
    LET J == DOMAIN logits
        top_bias  == SetMin({logits[j].bias : j \in J})
        top_score == SetMax({logits[j].score : j \in {i \in J : logits[i].bias = top_bias}})
    IN  [j \in J |-> IF logits[j].bias > top_bias THEN 0
                     ELSE exp_f32(top_score - logits[j].score)]

\* tf.math.argmax: the first index holding the maximum.
argmax(w) ==
    SetMin({j \in DOMAIN w : \A i \in DOMAIN w : w[i] <= w[j]})

\* The posterior scores; the target of the example favours candidate post_peak.
posterior_classifier_scores(inp) ==
    [j \in 0..(inp.max_fact_num - 1) |-> IF j = inp.post_peak THEN MaxScore ELSE 0]

prior_classifier_probs(inp) ==
    softmax(add_fact_mask(inp.scores, inp.fact_length))

posterior_classifier_probs(inp) ==
    softmax(add_fact_mask(posterior_classifier_scores(inp), inp.fact_length))

\* Lines 166-232: the distributions create_model keeps.
create_classifier(hp, inp) ==
    IF hp.flexka_classifier_mode = "prior_posterior_attention"
    THEN [ classifier_scores |-> prior_classifier_probs(inp),
           posterior |-> IF hp.mode = "TRAIN"
                         THEN posterior_classifier_probs(inp) ELSE <<>>,
           classifier_scores_for_sampling |->
                         IF hp.mode = "TRAIN"
                         THEN posterior_classifier_probs(inp)
                         ELSE prior_classifier_probs(inp) ]
    ELSE NoValue

\* model_helper.sample_from_distribution(probs, 1): one candidate of non-zero
\* probability, picked by the random stream.
sample_from_distribution(w, noise) ==
    LET support == {j \in DOMAIN w : w[j] > 0}
        rank(j) == Cardinality({i \in support : i < j})
    IN  CHOOSE j \in support : rank(j) = noise % Cardinality(support)

\* model_helper.gumbel_softmax(probs, temperature): the relaxed distribution;
\* the candidate the noise favours gets the largest weight.
gumbel_softmax(w, noise) ==
    LET peak == sample_from_distribution(w, noise)
    IN  [j \in DOMAIN w |-> IF w[j] = 0 THEN 0 ELSE IF j = peak THEN 2 ELSE 1]

\* tf.where with the condition and the branches exchanged.
where_swapped(cond, x, y) == IF cond THEN y ELSE x

\* tf.where(self.inference_mode, x, y)
where(cond, x, y) == IF cond THEN x ELSE y

\* tf.batch_gather(self._fact_candidate, idx) for the example
batch_gather_fact(inp, rel) == fact_candidate(inp.max_fact_num, inp.example, rel)

\* self._embedding_fact looked up at a fact id
embedding_fact(f) == [kind |-> "hard", fact |-> f]

\* The cue embedding of a single candidate: the arg-max of the distribution.
weighted_embedding_hard(inp, dist) ==
    embedding_fact(batch_gather_fact(inp, argmax(dist)))

\* tf.reduce_sum(fact_candidate_embedding * distribution, 1)
weighted_embedding(inp, dist) ==
    [kind |-> "soft",
     weights |-> [j \in DOMAIN dist |-> dist[j]],
     facts |-> [j \in DOMAIN dist |-> batch_gather_fact(inp, j)]]

\* Lines 239-300: the realized cue selection and the cue embedding.
select_cue(hp, inp, cls) ==
    LET given_rel == inp.cue_fact
        given_abs == batch_gather_fact(inp, given_rel)
        conn == hp.flexka_classifier_connection_mode
    IN
    IF hp.flexka_classifier_mode = "prior_posterior_attention"
    THEN IF conn = "argmax" \/ hp.force_argmax
         THEN LET pred == argmax(cls.classifier_scores)
                  abs == where(inp.inference_mode, batch_gather_fact(inp, pred), given_abs)
              IN  [ abs_idx |-> abs,
                    relative_idx |-> where(inp.inference_mode, pred, given_rel),
                    discrete_mode |-> FALSE,
                    embedding |-> embedding_fact(abs) ]
         ELSE IF conn = "sample"
         THEN LET pred == sample_from_distribution(
                              cls.classifier_scores_for_sampling, inp.noise)
                  abs == where(inp.inference_mode, batch_gather_fact(inp, pred), given_abs)
              IN  [ abs_idx |-> abs,
                    relative_idx |-> where(inp.inference_mode, pred, given_rel),
                    discrete_mode |-> FALSE,
                    embedding |-> embedding_fact(abs) ]
         ELSE IF conn = "gumbel"
         THEN LET gumbel_probs == gumbel_softmax(
                              cls.classifier_scores_for_sampling, inp.noise)
                  pred == argmax(gumbel_probs)
              IN  [ abs_idx |-> "None",
                    relative_idx |-> where(inp.inference_mode, pred, given_rel),
                    discrete_mode |-> TRUE,
                    embedding |-> weighted_embedding(inp, gumbel_probs) ]
         ELSE \* no branch runs: the attributes keep what __init__ gave them
              [ abs_idx |-> inp.cue_fact,
                relative_idx |-> "unset",
                discrete_mode |-> FALSE,
                embedding |-> embedding_fact(inp.cue_fact) ]
    ELSE [ abs_idx |-> given_abs,
           relative_idx |-> given_rel,
           discrete_mode |-> FALSE,
           embedding |-> embedding_fact(given_abs) ]

ClassifierModes == {"prior_posterior_attention", "dot"}
ConnectionModes == {"argmax", "sample", "gumbel", "other"}

SelectorInputs(F, len, scores, peak, gold, infer, noise) ==
    [ max_fact_num |-> F,
      fact_length |-> len,
      scores |-> scores,
      post_peak |-> peak,
      cue_fact |-> gold,
      inference_mode |-> infer,
      noise |-> noise,
      example |-> BatchSize - 1 ]

SelectorRest ==
    /\ pc = "create_model"
    /\ resolved = NoValue
    /\ classifier = NoValue
    /\ cue = NoValue
    /\ decoder = NoValue
    /\ model = NoValue

\* Runs that vary the candidate scores: every score vector, every length.
InitClassifier ==
    /\ \E md \in {"TRAIN", "INFER"}, conn \in ConnectionModes \ {"other"} :
          hparams = [DefaultHparams EXCEPT
                        !.mode = md, !.flexka_classifier_connection_mode = conn]
    /\ \E F \in 1..MaxFact :
         \E len \in 0..F, scores \in [0..(F - 1) -> 0..MaxScore], peak \in 0..(F - 1) :
          /\ hparams.mode = "INFER" => peak = 0
          /\ inputs = SelectorInputs(F, len, scores, peak, 0, TRUE, 0)
    /\ SelectorRest

\* Runs that vary the configuration and the feeds: one candidate scores highest.
InitCue ==
    /\ \E md \in {"TRAIN", "INFER"}, cm \in ClassifierModes,
          conn \in ConnectionModes, force \in BOOLEAN :
          hparams = [DefaultHparams EXCEPT
                        !.mode = md, !.flexka_classifier_mode = cm,
                        !.flexka_classifier_connection_mode = conn,
                        !.force_argmax = force]
    /\ \E len \in 0..CueFact, best \in 0..(CueFact - 1), peak \in 0..(CueFact - 1),
          gold \in 0..(CueFact - 1), infer \in BOOLEAN, noise \in 0..(CueFact - 1) :
          /\ hparams.mode = "INFER" => peak = 0
          /\ inputs = SelectorInputs(CueFact, len,
                         [j \in 0..(CueFact - 1) |-> IF j = best THEN MaxScore ELSE 0],
                         peak, gold, infer, noise)
    /\ SelectorRest

\* create_model, lines 166-232
RunClassifier ==
    /\ pc = "create_model"
    /\ classifier' = create_classifier(hparams, inputs)
    /\ pc' = "classified"
    /\ UNCHANGED <<hparams, inputs, resolved, cue, decoder, model>>

\* create_model, lines 239-300
SelectCue ==
    /\ pc = "classified"
    /\ cue' = select_cue(hparams, inputs, classifier)
    /\ pc' = "selected"
    /\ UNCHANGED <<hparams, inputs, resolved, classifier, decoder, model>>

NextSelector == RunClassifier \/ SelectCue

SpecClassifier == InitClassifier /\ [][NextSelector]_vars

SpecCue == InitCue /\ [][NextSelector]_vars

-----------------------------------------------------------------------------
(* create_decoder in INFER mode and the decode loop of dynamic_decode.     *)
(* The batch is represented by two of its examples: example 0 and the      *)
(* longest example, 1.  A hypothesis is a beam slot <<b, w>>.              *)

DecodeExamples == {0, 1}

Slots(hp) == DecodeExamples \X (0 .. (hp.beam_width - 1))

\* tf.reduce_max(self._lengths_for_encoder)
reduce_max(lens) == SetMax({lens[b] : b \in DOMAIN lens})

\* tf.reduce_min, in place of the maximum
reduce_min(lens) == SetMin({lens[b] : b \in DOMAIN lens})

\* dynamic_decode without a bound: maximum_iterations = None
no_limit == 0 - 1

\* A decoder built without the iteration bound.
maximum_iterations_none(inp) == no_limit

\* A bound taken from the shortest source of the batch.
maximum_iterations_shortest(inp) == reduce_min(inp.lengths_for_encoder) * 2

\* maximum_iterations = tf.reduce_max(self._lengths_for_encoder) * 2
maximum_iterations(inp) == reduce_max(inp.lengths_for_encoder) * 2

AttentionKinds == {"luong", "scaled_luong", "bahdanau", "normed_bahdanau"}

\* An attention mechanism that takes any option for luong.
create_attention_mechanism_lenient(attention_option) ==
    [status |-> "ok",
     mechanism |-> IF attention_option \in {"bahdanau", "normed_bahdanau"}
                   THEN "BahdanauAttention" ELSE "LuongAttention"]

\* Model.create_attention_mechanism
create_attention_mechanism(attention_option) ==
    IF attention_option \in {"luong", "scaled_luong"}
    THEN [status |-> "ok", mechanism |-> "LuongAttention"]
    ELSE IF attention_option \in {"bahdanau", "normed_bahdanau"}
    THEN [status |-> "ok", mechanism |-> "BahdanauAttention"]
    ELSE [status |-> "ValueError: Unknown attention option"]

\* generate_probs_in_cell, lines 797-803
generate_probs_in_cell(hp) ==
    hp.kefu_decoder /\ (hp.entity_predict_mode \/ hp.copy_predict_mode)

\* The decoder create_decoder leaves behind, or the error that ends the
\* construction.
create_decoder(hp, inp, cue_fact_embedding) ==
    LET beam == hp.mode = "INFER" /\ hp.infer_mode = "beam_search"
        attention == create_attention_mechanism(hp.attention)
        failed(err) == [status |-> err]
        \* lines 811-853
        wrapper == IF hp.kefu_decoder
                   THEN "KEFUAttentionWrapperHGFU.AttentionWrapper"
                   ELSE "tf.contrib.seq2seq.AttentionWrapper"
        projection == IF generate_probs_in_cell(hp) THEN "in_cell" ELSE "projection_layer"
    IN
    \* line 795
    IF attention.status # "ok"
    THEN failed(attention.status)
    ELSE IF hp.mode # "INFER"
    THEN \* lines 857-892: the final state of the standard wrapper has no
         \* model_selector_openness
         IF ~hp.kefu_decoder
         THEN failed("AttributeError: model_selector_openness")
         ELSE [ status |-> "built",
                kind |-> "BasicDecoder",
                wrapper |-> wrapper,
                projection |-> projection,
                \* line 790
                cue_input_embedding |-> cue_fact_embedding,
                maximum_iterations |-> no_limit ]
    \* lines 756-793: fact_entity_idx is bound in the beam_search branch only
    \* under kefu_decoder; line 910 reads it as a default argument
    ELSE IF beam /\ ~hp.kefu_decoder
    THEN failed("UnboundLocalError: fact_entity_idx")
    \* lines 1035-1065: the else belongs to the beam_search test alone
    ELSE IF ~beam
    THEN failed("ValueError: Unknown infer_mode")
    ELSE [ status |-> "built",
           kind |-> "BeamSearchDecoder",
           wrapper |-> wrapper,
           projection |-> projection,
           \* lines 769-770: tile_batch(self._cue_fact_embedding, beam_width)
           cue_input_embedding |->
               [s \in Slots(hp) |->
                   cue_fact_embedding[
                       tile_batch_example(s[1] * hp.beam_width + s[2], hp.beam_width)]],
           cue_inputs |-> [s \in Slots(hp) |-> NoValue],
           maximum_iterations |-> maximum_iterations(inp),
           time |-> 0,
           emitted_end |-> [s \in Slots(hp) |-> FALSE],
           finished |-> [s \in Slots(hp) |-> FALSE],
           lengths |-> [s \in Slots(hp) |-> 0] ]

InferModes == {"greedy", "beam_search", "sample"}

\* self._cue_fact_embedding of example b after create_model: the embedding of
\* one candidate of the example's own pool.
cue_fact_embedding_of(b) == embedding_fact(fact_candidate(MaxFact, b, 1))

InitDecode ==
    /\ \E im \in InferModes, W \in {1, BeamWidth}, kefu \in BOOLEAN :
          hparams = [DefaultHparams EXCEPT
                        !.infer_mode = im, !.beam_width = W, !.kefu_decoder = kefu]
    /\ \E S \in 1..MaxDecodeLen :
         \E len0 \in 1..S :
          inputs = [ lengths_for_encoder |-> (0 :> len0 @@ 1 :> S) ]
    /\ pc = "create_decoder"
    /\ resolved = NoValue
    /\ classifier = NoValue
    /\ cue = [b \in DecodeExamples |-> cue_fact_embedding_of(b)]
    /\ decoder = NoValue
    /\ model = NoValue

\* Model.create_decoder, INFER branch, up to the call of dynamic_decode
CreateDecoder ==
    /\ pc = "create_decoder"
    /\ decoder' = create_decoder(hparams, inputs, cue)
    /\ pc' = IF decoder'.status # "built" THEN "error"
             ELSE IF hparams.mode = "INFER" THEN "decoding"
             ELSE "decoder_created"
    /\ UNCHANGED <<hparams, inputs, resolved, classifier, cue, model>>

\* The longest run the model follows when the decoder has no bound.
TimeCap == 2 * MaxDecodeLen + 1

\* time + 1 >= maximum_iterations, when there is a bound
deadline(d) ==
    d.maximum_iterations # no_limit /\ d.time + 1 >= d.maximum_iterations

\* One iteration of the while loop of dynamic_decode: every hypothesis still
\* running takes one step and may emit the end token; the loop ends when all
\* are finished, which the deadline forces.
DecodeStep ==
    /\ pc = "decoding"
    /\ decoder.time < TimeCap
    /\ \E ends \in SUBSET {s \in Slots(hparams) : ~decoder.finished[s]} :
          LET fin == [s \in Slots(hparams) |->
                         decoder.finished[s] \/ s \in ends \/ deadline(decoder)]
          IN  /\ decoder' = [decoder EXCEPT
                    !.time = @ + 1,
                    !.emitted_end = [s \in Slots(hparams) |-> @[s] \/ s \in ends],
                    !.finished = fin,
                    \* the cue input the attention wrapper was built with
                    !.cue_inputs = [s \in Slots(hparams) |->
                                       decoder.cue_input_embedding[s]],
                    !.lengths = [s \in Slots(hparams) |->
                                    IF decoder.finished[s] THEN @[s] ELSE @[s] + 1]]
              /\ pc' = IF \A s \in Slots(hparams) : fin[s] THEN "done" ELSE "decoding"
    /\ UNCHANGED <<hparams, inputs, resolved, classifier, cue, model>>

NextDecode == CreateDecoder \/ DecodeStep

SpecDecode == InitDecode /\ [][NextDecode]_vars

\* The TensorFlow session runs the graph to its end: a step that can be taken
\* is taken.
FairSpecDecode ==
    InitDecode /\ [][NextDecode]_vars /\ WF_vars(CreateDecoder) /\ WF_vars(DecodeStep)

-----------------------------------------------------------------------------
(* Model.__init__: the construction steps that depend on the configuration. *)

Modes == {"TRAIN", "EVAL", "INFER"}

Optimizers == {"sgd", "adam", "adagrad"}

\* Model.create_update_op.  hparams is a dictionary: the error branch reads
\* hparams.optimizer to format its message, which raises AttributeError
\* before the ValueError is built.
create_update_op(hp) ==
    IF hp.optimizer = "sgd"
    THEN [status |-> "ok", opt |-> "GradientDescentOptimizer", update |-> TRUE]
    ELSE IF hp.optimizer = "adam"
    THEN [status |-> "ok", opt |-> "AdamOptimizer", update |-> TRUE]
    ELSE [status |-> "AttributeError: 'dict' object has no attribute 'optimizer'",
          update |-> FALSE]

InitBuild ==
    /\ \E md \in Modes, im \in InferModes, W \in {1, BeamWidth}, kefu \in BOOLEAN,
          att \in AttentionKinds \cup {"dot"}, opt \in Optimizers :
          hparams = [DefaultHparams EXCEPT
                        !.mode = md, !.infer_mode = im, !.beam_width = W,
                        !.kefu_decoder = kefu, !.attention = att, !.optimizer = opt]
    /\ \E S \in 1..MaxDecodeLen :
         \E len0 \in 1..S :
          inputs = [ lengths_for_encoder |-> (0 :> len0 @@ 1 :> S) ]
    /\ pc = "create_decoder"
    /\ resolved = NoValue
    /\ classifier = NoValue
    /\ cue = [b \in DecodeExamples |-> cue_fact_embedding_of(b)]
    /\ decoder = NoValue
    /\ model = NoValue

\* Model.__init__, lines 128-129: create_update_op in TRAIN mode
CreateUpdateOp ==
    /\ pc = "decoder_created"
    /\ hparams.mode = "TRAIN"
    /\ model' = create_update_op(hparams)
    /\ pc' = IF model'.status = "ok" THEN "constructed" ELSE "error"
    /\ UNCHANGED <<hparams, inputs, resolved, classifier, cue, decoder>>

NextBuild == CreateDecoder \/ CreateUpdateOp

SpecBuild == InitBuild /\ [][NextBuild]_vars

-----------------------------------------------------------------------------
(* get_iterator: a dataset of two lines through the pipeline, to one       *)
(* padded batch of the whole dataset (num_buckets <= 1) or of one bucket   *)
(* of it (num_buckets > 1).                                                *)

unk_id == 0         \* the id of words outside the vocabulary
tgt_sos_id == 1     \* union_table.lookup(sos)
tgt_eos_id == 2     \* union_table.lookup(eos)
ent_pad_id == 0     \* entity_table.lookup(PAD_ENTITY)

\* vocab_table / union_table / relative_vocab_table .lookup of one token: a
\* word of the vocabulary gets its id, any other string the default.
vocab_lookup(token) == IF token = "w" THEN tgt_eos_id + 1 ELSE unk_id

\* entity_table.lookup
entity_lookup(token) == IF token = "w" THEN ent_pad_id + 1 ELSE ent_pad_id

\* A line of n tokens, after tf.string_split.
line(n) == [k \in 1..n |-> "w"]

\* A fact line: n fact numbers as decimal strings.
fact_line(n) == [k \in 1..n |-> k]

\* line[:max_len]
slice_to(tokens, max_len) == SubSeq(tokens, 1, Min(Len(tokens), max_len))

\* Lines 82-83: tf.size(src) > 0 and tf.size(tgt_in) > 0
keep_example(ex) == Len(ex.src) > 0 /\ Len(ex.tgt_in) > 0

\* dataset.filter
RECURSIVE filter_dataset(_)
filter_dataset(ds) ==
    IF ds = <<>> THEN <<>>
    ELSE IF keep_example(Head(ds))
         THEN <<Head(ds)>> \o filter_dataset(Tail(ds))
         ELSE filter_dataset(Tail(ds))

\* Lines 89-96: a max_len of None or 0 leaves the lines whole
truncate_example(ex, src_max_len, tgt_max_len) ==
    LET cut_src == IF src_max_len # 0
                   THEN [ex EXCEPT !.src = slice_to(@, src_max_len),
                                   !.ent = slice_to(@, src_max_len)]
                   ELSE ex
    IN  IF tgt_max_len # 0
        THEN [cut_src EXCEPT !.tgt_in = slice_to(@, tgt_max_len),
                             !.tgt_out = slice_to(@, tgt_max_len)]
        ELSE cut_src

\* Lines 100-123: ids, <sos> / <eos>, sequence lengths
map_example(ex, sub_token_num) ==
    LET src     == [k \in 1..Len(ex.src) |-> vocab_lookup(ex.src[k])]
        tgt_in  == <<tgt_sos_id>> \o [k \in 1..Len(ex.tgt_in) |-> vocab_lookup(ex.tgt_in[k])]
        tgt_out == [k \in 1..Len(ex.tgt_out) |-> vocab_lookup(ex.tgt_out[k])] \o <<tgt_eos_id>>
    IN  [ src |-> src,
          ent |-> [k \in 1..Len(ex.ent) |-> entity_lookup(ex.ent[k])],
          tgt_in |-> tgt_in,
          tgt_out |-> tgt_out,
          fact |-> ex.fact,
          src_len |-> Len(src) \div sub_token_num,
          tgt_len |-> Len(tgt_in),
          fact_len |-> Len(ex.fact) ]

\* One row of padded_batch: the row, then the padding value up to the width
pad_to(row, width, padding_value) ==
    [k \in 1..width |-> IF k <= Len(row) THEN row[k] ELSE padding_value]

\* A padded component of one fixed width, whatever the rows
padded_width_fixed(ds, component) == MaxLine + 1

\* The width of a padded component: the longest row of the batch
padded_width(ds, component) ==
    SetMax({Len(ds[i][component]) : i \in DOMAIN ds} \cup {0})

\* Lines 128-157 and 186-198: the BatchedInput of the first batch
padded_batch(ds) ==
    LET rows == DOMAIN ds
        padded(component, value) ==
            [i \in rows |-> pad_to(ds[i][component], padded_width(ds, component), value)]
    IN  [ source |-> padded("src", src_eos_id),
          source_in_entity |-> padded("ent", ent_pad_id),
          target_input |-> padded("tgt_in", tgt_eos_id),
          target_output |-> padded("tgt_out", tgt_eos_id),
          fact |-> padded("fact", ent_pad_id),
          source_sequence_length |-> [i \in rows |-> ds[i].src_len],
          target_sequence_length |-> [i \in rows |-> ds[i].tgt_len],
          fact_length |-> [i \in rows |-> ds[i].fact_len] ]

\* Line 168: the bucket width when src_max_len is not given
default_bucket_width == 10

\* Lines 165-168
bucket_width(src_max_len, num_buckets) ==
    IF src_max_len # 0
    THEN (src_max_len + num_buckets - 1) \div num_buckets
    ELSE default_bucket_width

\* Lines 161-174: key_func
key_func(src_max_len, num_buckets, src_len, tgt_len) ==
    Min(num_buckets,
        Max(src_len \div bucket_width(src_max_len, num_buckets),
            tgt_len \div bucket_width(src_max_len, num_buckets)))

\* The bucket keys of the examples of a dataset
bucket_keys(ds, src_max_len, num_buckets) ==
    [i \in DOMAIN ds |-> key_func(src_max_len, num_buckets, ds[i].src_len, ds[i].tgt_len)]

\* Lines 176-181: group_by_window, the examples of one key in dataset order
RECURSIVE window(_, _, _)
window(ds, keys, key) ==
    IF ds = <<>> THEN <<>>
    ELSE IF Head(keys) = key
         THEN <<Head(ds)>> \o window(Tail(ds), Tail(keys), key)
         ELSE window(Tail(ds), Tail(keys), key)

\* kefu_model3.py line 171: the number of columns of tf.sequence_mask(lengths)
\* without maxlen
sequence_mask_maxlen(lengths) == reduce_max(lengths)

LineLengths == 0..MaxLine

\* The largest sub_token_num and num_buckets of the modelled runs
SubTokenNum == 2
NumBuckets == 2

RawExamples ==
    { [src |-> line(ns), ent |-> line(ns), tgt_in |-> line(ni),
       tgt_out |-> line(no), fact |-> fact_line(nf)] :
         ns \in LineLengths, ni \in LineLengths, no \in LineLengths, nf \in {0, MaxLine} }

InitIterator ==
    /\ hparams = DefaultHparams
    /\ \E first \in RawExamples, second \in RawExamples, tgt_max_len \in 0..MaxLine,
          src_max_len \in {0, MaxLine}, sub_token_num \in {1, SubTokenNum},
          num_buckets \in {1, NumBuckets} :
          inputs = [ dataset |-> <<first, second>>,
                     src_max_len |-> src_max_len,
                     tgt_max_len |-> tgt_max_len,
                     sub_token_num |-> sub_token_num,
                     num_buckets |-> num_buckets,
                     keys |-> <<>>,
                     batch |-> NoValue ]
    /\ pc = "filter"
    /\ resolved = NoValue
    /\ classifier = NoValue
    /\ cue = NoValue
    /\ decoder = NoValue
    /\ model = NoValue

\* Lines 82-83
FilterZeroLength ==
    /\ pc = "filter"
    /\ inputs' = [inputs EXCEPT !.dataset = filter_dataset(@)]
    /\ pc' = "truncate"
    /\ UNCHANGED <<hparams, resolved, classifier, cue, decoder, model>>

\* Lines 89-96
Truncate ==
    /\ pc = "truncate"
    /\ inputs' = [inputs EXCEPT !.dataset =
                     [i \in DOMAIN @ |->
                         truncate_example(@[i], inputs.src_max_len, inputs.tgt_max_len)]]
    /\ pc' = "map"
    /\ UNCHANGED <<hparams, resolved, classifier, cue, decoder, model>>

\* Lines 100-123
MapExamples ==
    /\ pc = "map"
    /\ inputs' = [inputs EXCEPT !.dataset =
                     [i \in DOMAIN @ |-> map_example(@[i], inputs.sub_token_num)]]
    /\ pc' = "batch"
    /\ UNCHANGED <<hparams, resolved, classifier, cue, decoder, model>>

\* Lines 128-198; an empty dataset yields no batch. With num_buckets > 1 a
\* batch holds the examples of one bucket key.
PaddedBatch ==
    /\ pc = "batch"
    /\ inputs.dataset # <<>>
    /\ IF inputs.num_buckets > 1
       THEN LET keys == bucket_keys(inputs.dataset, inputs.src_max_len, inputs.num_buckets)
            IN  \E i \in DOMAIN keys :
                  inputs' = [inputs EXCEPT
                                !.keys = keys,
                                !.batch = padded_batch(window(inputs.dataset, keys, keys[i]))]
       ELSE inputs' = [inputs EXCEPT !.batch = padded_batch(inputs.dataset)]
    /\ pc' = "batched"
    /\ UNCHANGED <<hparams, resolved, classifier, cue, decoder, model>>

NextIterator == FilterZeroLength \/ Truncate \/ MapExamples \/ PaddedBatch

SpecIterator == InitIterator /\ [][NextIterator]_vars

-----------------------------------------------------------------------------
(* The losses of a TRAIN batch: _golden_word_bow (Model.__init__), the     *)
(* word bag-of-words loss (create_decoder) and compute_loss.               *)

\* float32 values: a finite number, or NaN
Float(v) == [nan |-> FALSE, val |-> v]
NaN == [nan |-> TRUE, val |-> 0]

\* float32 product
mul(a, b) == IF a.nan \/ b.nan THEN NaN ELSE Float(a.val * b.val)

\* unk_val / count without the factor 0: an unknown position keeps a weight.
scaled_unk_val_not_zeroed(unk_val, count) ==
    IF count = 0 THEN NaN ELSE Float(unk_val)

\* unk_val / tf.reduce_sum(unk_val, keep_dims=True) * 0: with no unknown
\* token in the batch the quotient is 0 / 0.
scaled_unk_val(unk_val, count) ==
    IF count = 0 THEN NaN ELSE Float(0)

\* tf.sequence_mask(target_sequence_length, max_time), at (i, t)
target_seq_mask(lens, i, t) == IF t <= lens[i] THEN 1 ELSE 0

\* Model.compute_loss: the weight of every position, and the denominators of
\* the divisions it evaluates.
compute_loss(target_output, target_sequence_length, unk_helper) ==
    LET rows == DOMAIN target_output
        is_unk(i, t) == target_output[i][t] = unk_id
        count == Cardinality({p \in rows \X (1..MaxLine + 1) :
                                 /\ p[2] \in DOMAIN target_output[p[1]]
                                 /\ is_unk(p[1], p[2])})
        mask(i, t) == Float(target_seq_mask(target_sequence_length, i, t))
        unk_val(i, t) == scaled_unk_val(IF is_unk(i, t) THEN 1 ELSE 0, count)
        unk_weights(i, t) == mul(unk_val(i, t), mask(i, t))
    IN  [ target_weights |->
             [i \in rows |-> [t \in DOMAIN target_output[i] |->
                 IF unk_helper
                 THEN where(is_unk(i, t), unk_weights(i, t), mask(i, t))
                 ELSE mask(i, t)]],
          denominators |-> IF unk_helper THEN {count} ELSE {} ]

\* A bag that counts every occurrence: tf.reduce_sum in place of reduce_max.
bag_of_word_counted(row, w) ==
    Cardinality({t \in DOMAIN row : t > 1 /\ row[t] = w})

\* tf.reduce_max(tf.one_hot(bag_of_words_input, depth=vocab_size), 1), at w
bag_of_word(row, w) ==
    IF \E t \in DOMAIN row : t > 1 /\ row[t] = w THEN 1 ELSE 0

\* zero_mask: 0 at word 0, 1 elsewhere
zero_mask(w) == IF w = 0 THEN 0 ELSE 1

\* Lines 54-64: self._golden_word_bow [batch, vocab_size]
golden_word_bow(inputs_for_decoder, vocab_size) ==
    [i \in DOMAIN inputs_for_decoder |->
        [w \in 0..(vocab_size - 1) |->
            Min(bag_of_word(inputs_for_decoder[i], w), zero_mask(w))]]

RECURSIVE reduce_sum(_, _)
\* tf.reduce_sum(x, -1) over the indexes in dom
reduce_sum(x, dom) ==
    IF dom = {} THEN 0
    ELSE LET w == CHOOSE w \in dom : TRUE
         IN  x[w] + reduce_sum(x, dom \ {w})

\* Lines 713-725: the denominator of each example's word bag-of-words loss
word_bow_loss_denominators(bow) ==
    {Max(reduce_sum(bow[i], DOMAIN bow[i]), 1) : i \in DOMAIN bow}

TargetTokens == {"w", "?"}

\* The target lines of at most MaxLine tokens
TargetLines == UNION {[1..n -> TargetTokens] : n \in 0..MaxLine}

\* An example of the dataset with the given target line
raw_example(tgt) ==
    [src |-> line(1), ent |-> line(1), tgt_in |-> tgt, tgt_out |-> tgt,
     fact |-> fact_line(0)]

InitLoss ==
    /\ \E unk_helper \in BOOLEAN :
          hparams = [DefaultHparams EXCEPT
                        !.mode = "TRAIN", !.unk_helper = unk_helper,
                        !.tgt_vocab_size = tgt_eos_id + 2]
    /\ \E first \in TargetLines, second \in TargetLines :
          inputs = [ dataset |-> <<map_example(raw_example(first), 1),
                                   map_example(raw_example(second), 1)>>,
                     src_max_len |-> 0,
                     tgt_max_len |-> 0,
                     batch |-> padded_batch(<<map_example(raw_example(first), 1),
                                              map_example(raw_example(second), 1)>>) ]
    /\ pc = "init"
    /\ resolved = NoValue
    /\ classifier = NoValue
    /\ cue = NoValue
    /\ decoder = NoValue
    /\ model = NoValue

\* Model.__init__, lines 54-64
GoldenWordBow ==
    /\ pc = "init"
    /\ model' = [ golden_word_bow |->
                     golden_word_bow(inputs.batch.target_input, hparams.tgt_vocab_size),
                  word_bow_loss_denominators |-> {},
                  loss |-> NoValue ]
    /\ pc' = "create_decoder"
    /\ UNCHANGED <<hparams, inputs, resolved, classifier, cue, decoder>>

\* Model.create_decoder, lines 700-725
WordBowLoss ==
    /\ pc = "create_decoder"
    /\ model # NoValue
    /\ model' = [model EXCEPT !.word_bow_loss_denominators =
                                  word_bow_loss_denominators(model.golden_word_bow)]
    /\ pc' = "compute_loss"
    /\ UNCHANGED <<hparams, inputs, resolved, classifier, cue, decoder>>

\* Model.create_model, lines 387-390
ComputeLoss ==
    /\ pc = "compute_loss"
    /\ model' = [model EXCEPT !.loss =
                    compute_loss(inputs.batch.target_output,
                                 inputs.batch.target_sequence_length,
                                 hparams.unk_helper)]
    /\ pc' = "loss_computed"
    /\ UNCHANGED <<hparams, inputs, resolved, classifier, cue, decoder>>

NextLoss == GoldenWordBow \/ WordBowLoss \/ ComputeLoss

SpecLoss == InitLoss /\ [][NextLoss]_vars

-----------------------------------------------------------------------------
(* The teacher-forced decoder input of create_decoder (TRAIN), lines       *)
(* 612-663: the copy part gathers the encoder memory at every position of  *)
(* inputs_for_decoder.                                                     *)

\* Lines 621-624
is_copy_words_train(hp, x) ==
    x >= hp.tgt_vocab_size /\ x < hp.tgt_vocab_size + hp.copy_token_nums

\* Lines 627-629
copy_idx_train(hp, x) ==
    Min(Max(x - hp.tgt_vocab_size, 0), hp.copy_token_nums - 1)

\* Lines 637-640: copy_idx + tf.range(batch_size) * max_src_len
offset_copy_idx_train(hp, S, b, x) == copy_idx_train(hp, x) + b * S

\* Lines 612-663.  The gather of line 643 is made for every position, copy
\* word or not; an index outside the flattened memory raises on a CPU kernel
\* (raises = TRUE) and yields a zero row on a GPU kernel.
targets_in_embedding(hp, inp, raises) ==
    LET S == inp.max_src_len
        memory_size == inp.batch_size * S
        copy_lookup == hp.mode = "TRAIN" /\ hp.multi_decoder_input /\ hp.copy_predict_mode
        flat(b, t) == offset_copy_idx_train(hp, S, b, inp.inputs_for_decoder[b][t])
        oob == copy_lookup /\
               \E b \in DOMAIN inp.inputs_for_decoder :
                 \E t \in DOMAIN inp.inputs_for_decoder[b] : flat(b, t) >= memory_size
    IN  [ status |-> IF oob /\ raises THEN "InvalidArgumentError" ELSE "ok",
          copy_lookup |-> copy_lookup,
          memory_size |-> memory_size,
          copy_flat |-> [b \in DOMAIN inp.inputs_for_decoder |->
                           [t \in DOMAIN inp.inputs_for_decoder[b] |-> flat(b, t)]],
          is_copy |-> [b \in DOMAIN inp.inputs_for_decoder |->
                           [t \in DOMAIN inp.inputs_for_decoder[b] |->
                               copy_lookup /\
                               is_copy_words_train(hp, inp.inputs_for_decoder[b][t])]],
          embedding_list |-> targets_in_embedding_list(hp) ]

InitTeacherForce ==
    /\ \E C \in 1..MaxCopy, E \in 1..MaxEntity,
          ent \in BOOLEAN, cp \in BOOLEAN, multi \in BOOLEAN :
          hparams = [DefaultHparams EXCEPT
                        !.mode = "TRAIN",
                        !.copy_token_nums = C, !.entity_token_nums = E,
                        !.entity_predict_mode = ent, !.copy_predict_mode = cp,
                        !.multi_decoder_input = multi]
    /\ \E S \in 1..MaxSrcLen :
         \E ids \in [Examples -> ExtendedVocab(hparams)] :
          inputs = [ batch_size |-> BatchSize,
                     max_src_len |-> S,
                     inputs_for_decoder |-> [b \in Examples |-> <<tgt_sos_id, ids[b]>>] ]
    /\ pc = "decoder_inputs"
    /\ resolved = NoValue
    /\ classifier = NoValue
    /\ cue = NoValue
    /\ decoder = NoValue
    /\ model = NoValue

\* Lines 612-663
TargetsInEmbedding ==
    /\ pc = "decoder_inputs"
    /\ \E raises \in BOOLEAN :
          resolved' = targets_in_embedding(hparams, inputs, raises)
    /\ pc' = IF resolved'.status = "ok" THEN "embedded" ELSE "error"
    /\ UNCHANGED <<hparams, inputs, classifier, cue, decoder, model>>

NextTeacherForce == TargetsInEmbedding

SpecTeacherForce == InitTeacherForce /\ [][NextTeacherForce]_vars

-----------------------------------------------------------------------------
(* The training objectives of create_model, lines 392-431.  A loss and a   *)
(* coefficient are numbers of a common unit; sums and products are exact.  *)

MaxLoss == 1     \* the loss terms of a batch range over 0..MaxLoss
MaxCoef == 2     \* largest loss coefficient of the configuration

\* The knowledge bag-of-words term of lines 419-422
knowledge_bow_term(hp, l) ==
    l.knowledge_bow_loss * hp.knowledge_bow_loss * hp.flexka_classifier_lr_offset

\* The classifier KL term of lines 424-429
classifier_kld_term(hp, l) ==
    IF hp.flexka_classifier_kld_loss > 0
    THEN l.clasiffier_kld_loss * hp.flexka_classifier_kld_loss * hp.flexka_classifier_lr_offset
    ELSE 0

\* Lines 394-416: self._train_update_loss when the generator objective is taken
generator_update_loss(hp, l) ==
    LET base == IF hp.length_weight THEN l.length_weighted_loss ELSE l.train_loss
        kld  == IF hp.flexka_posterior_multi_cue
                THEN base + l.kld_loss * hp.flexka_kld_loss ELSE base
        teach == IF hp.teach_force
                 THEN kld + l.teach_force_loss * hp.teach_force_rate ELSE kld
    IN  IF hp.word_bow_loss > 0
        THEN teach + l.word_bow_loss * hp.word_bow_loss ELSE teach

\* A recommender objective that leaves flexka_classifier_lr_offset out
recommender_update_loss_no_offset(hp, l) ==
    0 + l.knowledge_bow_loss * hp.knowledge_bow_loss
      + (IF hp.flexka_classifier_kld_loss > 0
         THEN l.clasiffier_kld_loss * hp.flexka_classifier_kld_loss ELSE 0)

\* Lines 417, 421-422, 427-429
recommender_update_loss(hp, l) ==
    0 + knowledge_bow_term(hp, l) + classifier_kld_term(hp, l)

\* Lines 419-420, 425-426: the combined objective
train_update_loss(hp, l) ==
    generator_update_loss(hp, l) + knowledge_bow_term(hp, l) + classifier_kld_term(hp, l)

\* Lines 392-431
create_objectives(hp, l) ==
    [ train_loss |-> l.train_loss,
      train_update_loss |-> train_update_loss(hp, l),
      generator_update_loss |-> generator_update_loss(hp, l),
      recommender_update_loss |-> recommender_update_loss(hp, l) ]

Losses == 0..MaxLoss

InitObjective ==
    /\ \E length_weight \in BOOLEAN, multi_cue \in BOOLEAN, teach_force \in BOOLEAN,
          rate \in {1, MaxCoef}, word \in {0, MaxCoef}, know \in {0, MaxCoef},
          ckld \in {0, MaxCoef}, offset \in {1, MaxCoef} :
          hparams = [DefaultHparams EXCEPT !.mode = "TRAIN"] @@
                    [ length_weight |-> length_weight,
                      flexka_posterior_multi_cue |-> multi_cue,
                      flexka_kld_loss |-> rate,
                      teach_force |-> teach_force,
                      teach_force_rate |-> rate,
                      word_bow_loss |-> word,
                      knowledge_bow_loss |-> know,
                      flexka_classifier_kld_loss |-> ckld,
                      flexka_classifier_lr_offset |-> offset ]
    /\ \E train \in Losses, weighted \in Losses, kld \in Losses, teach \in Losses,
          word \in Losses, know \in Losses, ckld \in Losses :
          inputs = [ train_loss |-> train,
                     length_weighted_loss |-> weighted,
                     kld_loss |-> kld,
                     teach_force_loss |-> teach,
                     word_bow_loss |-> word,
                     knowledge_bow_loss |-> know,
                     clasiffier_kld_loss |-> ckld ]
    /\ pc = "losses"
    /\ resolved = NoValue
    /\ classifier = NoValue
    /\ cue = NoValue
    /\ decoder = NoValue
    /\ model = NoValue

\* Lines 392-431
CreateObjectives ==
    /\ pc = "losses"
    /\ model' = create_objectives(hparams, inputs)
    /\ pc' = "objectives"
    /\ UNCHANGED <<hparams, inputs, resolved, classifier, cue, decoder>>

NextObjective == CreateObjectives

SpecObjective == InitObjective /\ [][NextObjective]_vars

-----------------------------------------------------------------------------
(* The step counters of Model.__init__ and the ops that write them, run    *)
(* one at a time by the training loop.                                     *)

MaxStep == 4     \* the counters are followed up to MaxStep

\* Lines 471-499: the update ops create_update_op builds
update_ops(hp) ==
    IF hp.mode = "TRAIN" /\ create_update_op(hp).status = "ok"
    THEN IF hp.round_train
         THEN {"update", "update_generator", "update_recommender"}
         ELSE {"update"}
    ELSE {}

\* opt.apply_gradients(..., global_step=self.global_step) with another counter
apply_gradients_epoch_step(counters) ==
    [counters EXCEPT !.epoch_step = @ + 1]

\* Lines 471-472, 485-486, 498-499: opt.apply_gradients(...,
\* global_step=self.global_step) adds 1 to global_step
apply_gradients(counters) ==
    [counters EXCEPT !.global_step = @ + 1]

\* Line 115: tf.assign_add(self.epoch_step, 1)
next_epoch(counters) == [counters EXCEPT !.epoch_step = @ + 1]

\* Line 117: tf.assign(self.epoch_step, 0)
reset_epoch(counters) == [counters EXCEPT !.epoch_step = 0]

\* Line 118: tf.assign(self.global_step, 0)
rest_global_step(counters) == [counters EXCEPT !.global_step = 0]

InitCounters ==
    /\ \E md \in Modes, opt \in Optimizers, round_train \in BOOLEAN :
          hparams = [DefaultHparams EXCEPT !.mode = md, !.optimizer = opt] @@
                    [round_train |-> round_train]
    /\ inputs = NoValue
    /\ pc = IF hparams.mode = "TRAIN" /\ create_update_op(hparams).status # "ok"
            THEN "error" ELSE "constructed"
    /\ resolved = NoValue
    /\ classifier = NoValue
    /\ cue = NoValue
    /\ decoder = NoValue
    /\ model = [global_step |-> 0, epoch_step |-> 0]

ModelConstructed == pc # "error"

\* session.run(model.update)
Update ==
    /\ ModelConstructed
    /\ "update" \in update_ops(hparams)
    /\ model.global_step < MaxStep
    /\ model' = apply_gradients(model)
    /\ pc' = "update"
    /\ UNCHANGED <<hparams, inputs, resolved, classifier, cue, decoder>>

\* session.run(model.update_generator)
UpdateGenerator ==
    /\ ModelConstructed
    /\ "update_generator" \in update_ops(hparams)
    /\ model.global_step < MaxStep
    /\ model' = apply_gradients(model)
    /\ pc' = "update_generator"
    /\ UNCHANGED <<hparams, inputs, resolved, classifier, cue, decoder>>

\* session.run(model.update_recommender)
UpdateRecommender ==
    /\ ModelConstructed
    /\ "update_recommender" \in update_ops(hparams)
    /\ model.global_step < MaxStep
    /\ model' = apply_gradients(model)
    /\ pc' = "update_recommender"
    /\ UNCHANGED <<hparams, inputs, resolved, classifier, cue, decoder>>

\* session.run(model.next_epoch)
NextEpoch ==
    /\ ModelConstructed
    /\ model.epoch_step < MaxStep
    /\ model' = next_epoch(model)
    /\ pc' = "next_epoch"
    /\ UNCHANGED <<hparams, inputs, resolved, classifier, cue, decoder>>

\* session.run(model.reset_epoch)
ResetEpoch ==
    /\ ModelConstructed
    /\ model' = reset_epoch(model)
    /\ pc' = "reset_epoch"
    /\ UNCHANGED <<hparams, inputs, resolved, classifier, cue, decoder>>

\* session.run(model.rest_global_step)
RestGlobalStep ==
    /\ ModelConstructed
    /\ model' = rest_global_step(model)
    /\ pc' = "rest_global_step"
    /\ UNCHANGED <<hparams, inputs, resolved, classifier, cue, decoder>>

NextCounters ==
    \/ Update \/ UpdateGenerator \/ UpdateRecommender
    \/ NextEpoch \/ ResetEpoch \/ RestGlobalStep

SpecCounters == InitCounters /\ [][NextCounters]_vars

-----------------------------------------------------------------------------
(* Claims about the index resolver (checked under SpecResolver).           *)

ResolvedBy(fn) == pc = "resolved" /\ resolved.fn = fn

\* C1: with copy and entity prediction both enabled, embedding_fn_multi puts
\* every id x of [0, V+C+E) in exactly one range: copy iff V <= x < V+C,
\* entity iff x >= V+C, and common (neither) iff x < V.
C1_ExactlyOneRange ==
    (ResolvedBy("embedding_fn_multi")
        /\ hparams.copy_predict_mode /\ hparams.entity_predict_mode) =>
    LET V == hparams.tgt_vocab_size
        C == hparams.copy_token_nums
        x == resolved.x
    IN  /\ resolved.is_copy <=> (V <= x /\ x < V + C)
        /\ resolved.is_entity <=> (x >= V + C)
        /\ (~resolved.is_copy /\ ~resolved.is_entity) <=> (x < V)

\* C2: for a copy-range id x = V + k with 0 <= k < source_length[b] the word
\* substituted for x is source[b][k], and for every id the copy offset is
\* clamped into row b of the flattened source, so the lookup never fails and
\* never reads another example.
C2_CopyRoundTrip ==
    (ResolvedBy("embedding_fn_multi") /\ resolved.copy_lookup) =>
    LET V == hparams.tgt_vocab_size
        S == inputs.max_src_len
        b == resolved.b
        k == resolved.x - V
        inrange == 0 <= k /\ k < inputs.lengths_for_encoder[b]
    IN  /\ resolved.copy_flat >= b * S
        /\ resolved.copy_flat < (b + 1) * S
        /\ (inrange /\ k < hparams.copy_token_nums) => resolved.status = "ok"
        /\ (inrange /\ resolved.status = "ok") =>
              /\ resolved.is_copy
              /\ resolved.common_word_idx
                    = source(S, inputs.lengths_for_encoder, b, k)

\* C2 witness: a copy id of the second example, past its first position, is
\* resolved with entity prediction enabled too.
C2_Witness ==
    /\ ResolvedBy("embedding_fn_multi")
    /\ resolved.copy_lookup /\ hparams.entity_predict_mode
    /\ resolved.b = 1
    /\ resolved.x = hparams.tgt_vocab_size + 1
    /\ inputs.lengths_for_encoder[1] >= 2
    /\ resolved.is_copy
    /\ resolved.status = "ok"

\* C3: in both resolvers the relative entity offset x - V - C is clipped to
\* [0, F-1] before the candidate-pool lookup, so the flattened index stays
\* inside the candidate-pool array.
C3_EntityOffsetClipped ==
    (pc = "resolved" /\ resolved.fact_lookup) =>
    LET F == inputs.max_fact_num
        off == resolved.fact_flat - resolved.b * F
    IN  /\ 0 <= off /\ off <= F - 1
        /\ resolved.fact_flat < resolved.fact_size

\* C22: in beam search with more than one example and beam_width > 1, every
\* lookup the resolver makes for hypothesis (b, k) addresses a row of example
\* b: the row of the tiled candidate pool, and the row of the source ids and
\* of the encoder memory.
C22_HypothesisReadsOwnExample ==
    (pc = "resolved" /\ inputs.batch_size > 1 /\ hparams.beam_width > 1) =>
    /\ (resolved.fact_lookup /\ resolved.fact_flat < resolved.fact_size) =>
          tile_batch_example(resolved.fact_flat \div inputs.max_fact_num,
                             resolved.fact_rows_per_example) = resolved.b
    /\ resolved.copy_lookup =>
          resolved.copy_flat \div inputs.max_src_len = resolved.b

\* C25: embedding_fn and embedding_fn_multi take the same ids for entities,
\* the ids x >= V + C, the first entity slot x = V + C included.
C25_ResolversAgreeOnEntities ==
    (pc = "resolved" /\ hparams.entity_predict_mode) =>
    LET multi == embedding_fn_multi(hparams, inputs, resolved.b, resolved.w, resolved.x, FALSE)
        plain == embedding_fn(hparams, inputs, resolved.b, resolved.w, resolved.x, FALSE)
        entity == resolved.x >= hparams.tgt_vocab_size + hparams.copy_token_nums
    IN  /\ multi.is_entity = plain.is_entity
        /\ multi.is_entity = entity
        /\ resolved.is_entity = entity

-----------------------------------------------------------------------------
(* Claims about the cue selector (SpecClassifier, SpecCue).                *)

Candidates == 0 .. (inputs.max_fact_num - 1)

Classified ==
    /\ pc \in {"classified", "selected"}
    /\ hparams.flexka_classifier_mode = "prior_posterior_attention"

\* C4: every candidate position j >= fact_length gets zero prior probability,
\* and in training zero posterior probability, for every fact_length in 0..F
\* and whichever selection mode is configured.
C4_PaddingHasNoMass ==
    Classified =>
    \A j \in Candidates :
        j >= inputs.fact_length =>
            /\ classifier.classifier_scores[j] = 0
            /\ hparams.mode = "TRAIN" => classifier.posterior[j] = 0

\* C5: the mask removes mass only from padding: with F = 4 and fact_length = 2
\* exactly positions 0 and 1 have non-zero probability, and in general every
\* position j < fact_length, position 0 included, keeps non-zero probability.
C5_OnlyPaddingMasked ==
    Classified =>
    /\ (inputs.max_fact_num = 4 /\ inputs.fact_length = 2) =>
          {j \in Candidates : classifier.classifier_scores[j] > 0} = {0, 1}
    /\ \A j \in Candidates :
          j < inputs.fact_length => classifier.classifier_scores[j] > 0

\* The largest score among the candidates the mask leaves alone.
TopUnmaskedScore ==
    SetMax({inputs.scores[j] : j \in {i \in Candidates : 1 <= i /\ i < inputs.fact_length}})

\* C5 as amended: the mask also removes the mass of position 0.  With F = 4 and
\* fact_length = 2 exactly position 1 has non-zero probability; in general
\* every position 1 <= j < fact_length keeps non-zero probability, unless its
\* score is below the largest unmasked score by more than float32's exp range.
C5_UnknownSlotMaskedToo ==
    Classified =>
    /\ (inputs.max_fact_num = 4 /\ inputs.fact_length = 2) =>
          {j \in Candidates : classifier.classifier_scores[j] > 0} = {1}
    /\ \A j \in Candidates :
          (1 <= j /\ j < inputs.fact_length
                /\ TopUnmaskedScore - inputs.scores[j] <= UnderflowGap)
             => classifier.classifier_scores[j] > 0

\* C5 witness: the scenario F = 4, fact_length = 2 with the prior scores
\* 2, 0, 1, 1 (position 0 scoring highest) has been classified.
C5_Witness ==
    /\ Classified
    /\ inputs.max_fact_num = 4 /\ inputs.fact_length = 2
    /\ inputs.scores = (0 :> 2 @@ 1 :> 0 @@ 2 :> 1 @@ 3 :> 1)
    /\ classifier.classifier_scores[0] = 0
    /\ classifier.classifier_scores[1] > 0

\* The cue another run selects from the same source, candidate pool and random
\* stream, with gold cue label g and a target favouring candidate t.
CueOfRun(g, t) ==
    LET inp == [inputs EXCEPT !.cue_fact = g, !.post_peak = t]
    IN  select_cue(hparams, inp, create_classifier(hparams, inp))

-----------------------------------------------------------------------------
(* Claims about create_decoder and the decode loop (SpecDecode).           *)

Constructed == pc \in {"error", "decoding", "done"}

\* C6: in INFER mode construction raises the 'Unknown infer_mode' error iff
\* infer_mode is neither greedy nor beam_search; with either of the two a
\* decoder is built.
C6_UnknownInferModeOnly ==
    Constructed =>
    /\ decoder.status = "ValueError: Unknown infer_mode"
          <=> hparams.infer_mode \notin {"greedy", "beam_search"}
    /\ (hparams.infer_mode \in {"greedy", "beam_search"} /\ hparams.kefu_decoder)
          => decoder.status = "built"

\* C7: beam search with beam_width = 1 and greedy decoding produce the same
\* token sequence and score on the same inputs: a greedy run builds a decoder
\* as the beam_width = 1 run does, and starts from the same state.
C7_GreedyIsBeamOfWidthOne ==
    (Constructed /\ hparams.infer_mode = "greedy" /\ hparams.kefu_decoder) =>
    LET beam1 == create_decoder(
                    [hparams EXCEPT !.infer_mode = "beam_search", !.beam_width = 1],
                    inputs, cue)
    IN  /\ decoder.status = beam1.status
        /\ decoder.status = "built" =>
              /\ decoder.maximum_iterations = beam1.maximum_iterations
              /\ Cardinality(DOMAIN decoder.finished) = Cardinality(DOMAIN beam1.finished)

Decoding == pc \in {"decoding", "done"}

\* C8: for every example b no hypothesis has more than 2 * source_length[b]
\* steps, and one that never emits the end token is truncated at exactly
\* 2 * source_length[b] steps, also when the source lengths differ.
C8_BoundPerExample ==
    Decoding =>
    \A s \in Slots(hparams) :
        LET bound == 2 * inputs.lengths_for_encoder[s[1]]
        IN  /\ decoder.lengths[s] <= bound
            /\ (pc = "done" /\ ~decoder.emitted_end[s]) => decoder.lengths[s] = bound

\* C8 as amended: the bound is batch-wide, 2 * the longest source length of
\* the batch: no hypothesis has more steps, and one that never emits the end
\* token is truncated at exactly that many steps.
C8_BoundPerBatch ==
    Decoding =>
    \A s \in Slots(hparams) :
        LET bound == 2 * reduce_max(inputs.lengths_for_encoder)
        IN  /\ decoder.time <= bound
            /\ decoder.lengths[s] <= bound
            /\ (pc = "done" /\ ~decoder.emitted_end[s]) => decoder.lengths[s] = bound

\* C8 witness: a hypothesis of the shorter example never emitted the end token
\* and was cut past twice its own source length.
C8_Witness ==
    /\ pc = "done"
    /\ inputs.lengths_for_encoder[0] < inputs.lengths_for_encoder[1]
    /\ ~decoder.emitted_end[<<0, 0>>]
    /\ decoder.lengths[<<0, 0>>] = 2 * inputs.lengths_for_encoder[1]
    /\ decoder.emitted_end[<<1, 0>>]

AllFinished == \A s \in Slots(hparams) : decoder.finished[s]

\* C9: inference decoding always terminates: the loop runs only while some
\* hypothesis is unfinished and the step count is below the bound, and from
\* every state of the loop the terminal state is eventually reached.
C9_DecodeTerminates ==
    /\ [](pc = "decoding" =>
            (~AllFinished /\ decoder.time < decoder.maximum_iterations))
    /\ [](pc = "done" =>
            (AllFinished \/ decoder.time = decoder.maximum_iterations))
    /\ (pc = "decoding") ~> (pc = "done")

\* C9 witness: the loop ended at the bound with no hypothesis ever emitting
\* the end token.
C9_Witness ==
    /\ pc = "done"
    /\ decoder.time = decoder.maximum_iterations
    /\ \A s \in Slots(hparams) : ~decoder.emitted_end[s]
    /\ hparams.beam_width > 1

-----------------------------------------------------------------------------
(* Claims about the cue embedding (SpecCue).                               *)

Selected == pc = "selected"

GumbelConfigured ==
    hparams.flexka_classifier_connection_mode = "gumbel" /\ ~hparams.force_argmax

\* The cue embedding is the sum of all F candidate embeddings weighted by the
\* relaxed distribution, and there is no absolute cue index.
SoftCue ==
    /\ cue.discrete_mode
    /\ cue.abs_idx = "None"
    /\ cue.embedding.kind = "soft"
    /\ DOMAIN cue.embedding.weights = 0 .. (inputs.max_fact_num - 1)
    /\ cue.embedding.weights =
          gumbel_softmax(classifier.classifier_scores_for_sampling, inputs.noise)
    /\ \A j \in DOMAIN cue.embedding.facts :
          cue.embedding.facts[j] = fact_candidate(inputs.max_fact_num, inputs.example, j)

\* The cue embedding is the one embedding of the selected candidate.
HardCue ==
    /\ ~cue.discrete_mode
    /\ cue.embedding.kind = "hard"
    /\ cue.embedding.fact =
          fact_candidate(inputs.max_fact_num, inputs.example, cue.relative_idx)

HardConfigured ==
    \/ hparams.flexka_classifier_connection_mode = "argmax"
    \/ hparams.flexka_classifier_connection_mode = "sample" /\ ~hparams.force_argmax

ArgmaxInference ==
    /\ Selected
    /\ hparams.flexka_classifier_mode = "prior_posterior_attention"
    /\ hparams.flexka_classifier_connection_mode = "argmax" \/ hparams.force_argmax
    /\ inputs.inference_mode

\* C23: in argmax selection mode with inference_mode on, the selected relative
\* cue index is a valid candidate position, below fact_length, for every
\* fact_length >= 1 and every assignment of the candidate scores.
C23_ArgmaxSelectsValidCandidate ==
    (ArgmaxInference /\ inputs.fact_length >= 1) =>
    /\ cue.relative_idx \in Candidates
    /\ cue.relative_idx < inputs.fact_length

\* A padding slot scores above every candidate and a candidate is selected
C23_Witness ==
    /\ ArgmaxInference
    /\ inputs.fact_length >= 2
    /\ inputs.fact_length < inputs.max_fact_num
    /\ \E j \in Candidates :
          /\ j >= inputs.fact_length
          /\ \A i \in Candidates : i < inputs.fact_length => inputs.scores[i] < inputs.scores[j]
    /\ cue.relative_idx >= 1
    /\ cue.relative_idx < inputs.fact_length

\* A selection branch of lines 244-281 ran and set the cue attributes
SelectionBranchRan ==
    \/ hparams.flexka_classifier_mode # "prior_posterior_attention"
    \/ hparams.force_argmax
    \/ hparams.flexka_classifier_connection_mode \in {"argmax", "sample", "gumbel"}

\* C24: in every configuration the index of the lookup of the cue embedding in
\* the fact embedding table is an absolute fact id of the candidate pool of
\* the example, the one at the selected relative position, never a relative
\* position; also for a connection mode other than argmax, sample and gumbel.
C24_CueLookupUsesAbsoluteId ==
    (Selected /\ ~cue.discrete_mode) =>
    /\ cue.embedding.kind = "hard"
    /\ cue.embedding.fact = cue.abs_idx
    /\ cue.embedding.fact \in {batch_gather_fact(inputs, r) : r \in Candidates}
    /\ SelectionBranchRan =>
          cue.embedding.fact = batch_gather_fact(inputs, cue.relative_idx)

-----------------------------------------------------------------------------
(* Claims about the construction of the model (SpecBuild).                 *)

DecoderAttempted == pc # "create_decoder"

\* C12: with kefu_decoder false, construction completes without error in
\* TRAIN mode and in INFER beam_search mode, and the decoder uses the standard
\* attention wrapper and the flat vocabulary projection.
C12_PlainDecoderBuilds ==
    ( /\ DecoderAttempted
      /\ ~hparams.kefu_decoder
      /\ hparams.attention \in AttentionKinds
      /\ \/ hparams.mode = "TRAIN"
         \/ hparams.mode = "INFER" /\ hparams.infer_mode = "beam_search" )
    => /\ decoder.status = "built"
       /\ decoder.wrapper = "tf.contrib.seq2seq.AttentionWrapper"
       /\ decoder.projection = "projection_layer"

UpdateOpAttempted == pc \in {"constructed", "error"} /\ model # NoValue

\* C15: in TRAIN mode an optimizer name other than sgd or adam aborts setup
\* with a ValueError that reports the unknown optimizer type, and no update
\* operation is created.
C15_UnknownOptimizerAborts ==
    (UpdateOpAttempted /\ hparams.optimizer \notin {"sgd", "adam"}) =>
    /\ pc = "error"
    /\ model.status = "ValueError: Unknown optimizer type"
    /\ ~model.update

-----------------------------------------------------------------------------
(* Claims about the decoder input embedding (SpecResolver).                *)

\* C13: for every combination of copy_predict_mode, entity_predict_mode and
\* add_token_type_feature, the sub-embeddings concatenated by
\* embedding_fn_multi are those of the teacher-forced decoder input in the
\* same order: common word, then copy if enabled, then entity if enabled.
C13_SameEmbeddingOrder ==
    ResolvedBy("embedding_fn_multi") =>
    /\ resolved.embedding_list =
          targets_in_embedding_list([hparams EXCEPT !.mode = "TRAIN"])
    /\ resolved.embedding_list =
          <<"common_word_embedding">>
             \o (IF hparams.copy_predict_mode THEN <<"copy_embedding">> ELSE <<>>)
             \o (IF hparams.entity_predict_mode THEN <<"entity_embedding">> ELSE <<>>)

-----------------------------------------------------------------------------
(* Claims about the batches of get_iterator (SpecIterator).                *)

Batched == pc = "batched"

\* C16: in every example of a batch target_input[0] is the start token and
\* target_output[target_sequence_length - 1] is the end token, with or
\* without truncation and whatever the token counts of the two target lines.
C16_SosFirstEosLast ==
    Batched =>
    \A i \in DOMAIN inputs.batch.target_input :
        LET last == inputs.batch.target_sequence_length[i]
        IN  /\ inputs.batch.target_input[i][1] = tgt_sos_id
            /\ last <= Len(inputs.batch.target_output[i])
            /\ inputs.batch.target_output[i][last] = tgt_eos_id

\* The positions of row i of the fact array that hold a fact id
UnpaddedFacts(i) ==
    {k \in DOMAIN inputs.batch.fact[i] : inputs.batch.fact[i][k] # ent_pad_id}

\* C21: in every batch fact_length[i] is the number of unpadded fact ids of
\* example i, the fact ids come first, fact_length[i] is at most the padded
\* width F of the fact array, F is the largest fact_length of the batch, and
\* the sequence mask built from the lengths without a width has F columns.
C21_FactLengthMatchesWidth ==
    Batched =>
    \A i \in DOMAIN inputs.batch.fact :
        LET F == Len(inputs.batch.fact[i])
        IN  /\ UnpaddedFacts(i) = 1 .. inputs.batch.fact_length[i]
            /\ inputs.batch.fact_length[i] <= F
            /\ F = reduce_max(inputs.batch.fact_length)
            /\ sequence_mask_maxlen(inputs.batch.fact_length) = F

\* A batch with a padded fact row next to a full one
C21_Witness ==
    /\ Batched
    /\ \E i, j \in DOMAIN inputs.batch.fact :
          /\ inputs.batch.fact_length[i] < inputs.batch.fact_length[j]
          /\ inputs.batch.fact_length[j] = Len(inputs.batch.fact[i])

\* C27: with num_buckets > 1 the bucket key of every example is in
\* 0 .. num_buckets - 1, and every example whose source or target length is
\* over (num_buckets - 1) * bucket_width gets the last key, num_buckets - 1.
C27_BucketKeyInRange ==
    (Batched /\ inputs.num_buckets > 1) =>
    \A i \in DOMAIN inputs.keys :
        LET last == inputs.num_buckets - 1
            over == last * bucket_width(inputs.src_max_len, inputs.num_buckets)
        IN  /\ inputs.keys[i] \in 0 .. last
            /\ (inputs.dataset[i].src_len > over \/ inputs.dataset[i].tgt_len > over)
                  => inputs.keys[i] = last

\* C28: every example of a batch has source_sequence_length >= 1 and
\* target_sequence_length >= 2, for every sub_token_num >= 1 and every
\* src_max_len and tgt_max_len.
C28_NoZeroLengthExample ==
    Batched =>
    \A i \in DOMAIN inputs.batch.source_sequence_length :
        /\ inputs.batch.source_sequence_length[i] >= 1
        /\ inputs.batch.target_sequence_length[i] >= 2

-----------------------------------------------------------------------------
(* Claims about the losses (SpecLoss).                                     *)

LossComputed == pc = "loss_computed"

\* C17: with unk_helper, compute_loss weights position (i, t) by 0 if t is at
\* or past target_sequence_length[i] or target_output[i][t] is the unknown id,
\* and by 1 otherwise, also in batches without any unknown token.
C17_UnknownAndPaddingExcluded ==
    (LossComputed /\ hparams.unk_helper) =>
    \A i \in DOMAIN inputs.batch.target_output :
      \A t \in DOMAIN inputs.batch.target_output[i] :
        model.loss.target_weights[i][t] =
            IF \/ t > inputs.batch.target_sequence_length[i]
               \/ inputs.batch.target_output[i][t] = unk_id
            THEN Float(0) ELSE Float(1)

UnknownTokens ==
    {p \in (DOMAIN inputs.batch.target_output) \X (1..MaxLine + 1) :
        /\ p[2] \in DOMAIN inputs.batch.target_output[p[1]]
        /\ inputs.batch.target_output[p[1]][p[2]] = unk_id}

\* C17 witness: a batch without any unknown token, one row of it padded: the
\* unknown count is 0 and the real positions still weigh 1.
C17_Witness ==
    /\ LossComputed
    /\ hparams.unk_helper
    /\ UnknownTokens = {}
    /\ model.loss.denominators = {0}
    /\ \E i \in DOMAIN inputs.batch.target_output :
          /\ inputs.batch.target_sequence_length[i] < Len(inputs.batch.target_output[i])
          /\ model.loss.target_weights[i][1] = Float(1)
          /\ model.loss.target_weights[i][Len(inputs.batch.target_output[i])] = Float(0)

\* C18: every division by a normalizer that can be zero floors the
\* denominator to at least 1: the bag-of-words mass of the word bag-of-words
\* loss and the count of unknown tokens of compute_loss.
C18_DenominatorsFloored ==
    LossComputed =>
    /\ \A d \in model.word_bow_loss_denominators : d >= 1
    /\ \A d \in model.loss.denominators : d >= 1

\* The real response tokens of decoder_in[i]: after the start token, before
\* the padding.
ResponseTokens(i) ==
    {t \in DOMAIN inputs.batch.target_input[i] :
        t > 1 /\ t <= inputs.batch.target_sequence_length[i]}

\* C19: the gold bag-of-words of example i holds, for every word w in [1, V),
\* the number of occurrences of w among the real response tokens of
\* decoder_in[i]; padding contributes nothing and the bag does not depend on
\* the other examples of the batch.
C19_BagIsOwnResponse ==
    pc # "init" =>
    \A i \in DOMAIN inputs.batch.target_input :
      \A w \in 1..(hparams.tgt_vocab_size - 1) :
        model.golden_word_bow[i][w] =
            Cardinality({t \in ResponseTokens(i) : inputs.batch.target_input[i][t] = w})

-----------------------------------------------------------------------------
(* Claims about the cue embedding during decoding (SpecDecode).            *)

\* C20: the cue selection is computed once per decode: at every decoding
\* step and for every beam slot of an example the cue embedding the decoder
\* reads is the one create_model computed for that example; it is never
\* recomputed.
C20_CueFixedDuringDecode ==
    /\ \A b \in DOMAIN cue : cue[b] = cue_fact_embedding_of(b)
    /\ (Decoding /\ decoder.time > 0) =>
          \A s \in Slots(hparams) : decoder.cue_inputs[s] = cue_fact_embedding_of(s[1])

\* C20 witness: several steps into a decode of beam width above 1, the slots
\* of the second example read its cue.
C20_Witness ==
    /\ Decoding
    /\ decoder.time > 1
    /\ hparams.beam_width > 1
    /\ \A w \in 0..(hparams.beam_width - 1) :
          decoder.cue_inputs[<<1, w>>] = cue_fact_embedding_of(1)
    /\ cue_fact_embedding_of(1) # cue_fact_embedding_of(0)

-----------------------------------------------------------------------------
(* Claims about the teacher-forced decoder input (SpecTeacherForce).       *)

\* C26: with copy enabled, for every example b and every decoder input id the
\* flattened index copy_idx + b * S of the encoder-memory gather lies in the
\* row of example b, [b * S, (b + 1) * S), for every source width S and every
\* copy_token_nums.
C26_GatherStaysInOwnRow ==
    (pc \in {"embedded", "error"} /\ resolved.copy_lookup) =>
    \A b \in DOMAIN resolved.copy_flat :
      \A t \in DOMAIN resolved.copy_flat[b] :
        /\ b * inputs.max_src_len <= resolved.copy_flat[b][t]
        /\ resolved.copy_flat[b][t] < (b + 1) * inputs.max_src_len

-----------------------------------------------------------------------------
(* Claims about the training objectives (SpecObjective).                   *)

ObjectivesCreated == pc = "objectives"

\* C29: for every configuration of the loss switches the combined objective
\* is the generator objective plus the recommender objective: the knowledge
\* bag-of-words term and the classifier KL term are in the combined and in
\* the recommender objective with the same coefficients, and the generator
\* objective does not depend on them.
C29_CombinedIsGeneratorPlusRecommender ==
    ObjectivesCreated =>
    /\ model.train_update_loss =
          model.generator_update_loss + model.recommender_update_loss
    /\ model.recommender_update_loss =
          inputs.knowledge_bow_loss * hparams.knowledge_bow_loss
                                    * hparams.flexka_classifier_lr_offset
          + inputs.clasiffier_kld_loss * hparams.flexka_classifier_kld_loss
                                       * hparams.flexka_classifier_lr_offset
    /\ \A know \in Losses, ckld \in Losses :
          create_objectives(hparams,
              [inputs EXCEPT !.knowledge_bow_loss = know,
                             !.clasiffier_kld_loss = ckld]).generator_update_loss
            = model.generator_update_loss

\* Both recommender terms are switched on and non-zero, next to a generator
\* objective with all its optional terms
C29_Witness ==
    /\ ObjectivesCreated
    /\ hparams.knowledge_bow_loss > 0 /\ inputs.knowledge_bow_loss > 0
    /\ hparams.flexka_classifier_kld_loss > 0 /\ inputs.clasiffier_kld_loss > 0
    /\ hparams.flexka_classifier_lr_offset > 1
    /\ hparams.flexka_posterior_multi_cue /\ hparams.teach_force
    /\ hparams.word_bow_loss > 0
    /\ model.generator_update_loss > 0
    /\ model.recommender_update_loss > 0

-----------------------------------------------------------------------------
(* Claims about the step counters (SpecCounters).                          *)

UpdateOpNames == {"update", "update_generator", "update_recommender"}

\* The effect every run of an op has on the two counters
CounterStep ==
    /\ pc' \in UpdateOpNames =>
          /\ model'.global_step = model.global_step + 1
          /\ model'.epoch_step = model.epoch_step
    /\ pc' = "next_epoch" =>
          /\ model'.epoch_step = model.epoch_step + 1
          /\ model'.global_step = model.global_step
    /\ pc' = "reset_epoch" =>
          /\ model'.epoch_step = 0
          /\ model'.global_step = model.global_step
    /\ pc' = "rest_global_step" =>
          /\ model'.global_step = 0
          /\ model'.epoch_step = model.epoch_step

\* C30: over any sequence of counter operations every executed update op
\* (update, update_generator, update_recommender) adds exactly 1 to
\* global_step and leaves epoch_step alone, next_epoch adds exactly 1 to
\* epoch_step and leaves global_step alone, reset_epoch sets epoch_step to 0
\* and rest_global_step sets global_step to 0, each leaving the other counter
\* alone, and both counters are always >= 0.
C30_CounterFrames ==
    /\ [][CounterStep]_vars
    /\ [](model.global_step >= 0 /\ model.epoch_step >= 0)

\* A round-trained model after several updates and epochs, the last op run
\* being the update of the recommender
C30_Witness ==
    /\ hparams.round_train
    /\ pc = "update_recommender"
    /\ model.global_step >= 2
    /\ model.epoch_step >= 2

=============================================================================
